---- MODULE Spec2Model ----
(***************************************************************************)
(* Segmented fuzzy search of the catalog browser and the FuzzySearchBox    *)
(* component that drives it.                                                *)
(*                                                                          *)
(* Scores are integers in hundredths: 5 stands for 0.05.  The matching      *)
(* engine (Fuse / Bitap) is kept uninterpreted: every document of a Fuse    *)
(* collection carries, for each query text, the raw score the engine gives  *)
(* it, or NoMatch when the engine rejects it.                               *)
(***************************************************************************)
EXTENDS Integers, Sequences, FiniteSets, TLC

VARIABLES
    exportedData,     \* data.ts: the exported metadata (neuralake)
    textNodes,        \* TextWithHighlights: props and the nodes it emitted
    indexByCatalog,   \* fuzzy-search.ts: Map catalog name -> SegmentedIndex
    builtIndex,       \* history: indexByCatalog as built at load time
    lastSearch,       \* history: the latest searchSegmentedIndex call
    query,            \* FuzzySearchBox: useState('')
    results,          \* FuzzySearchBox: useState([])
    activeIndex,      \* FuzzySearchBox: useState(0)
    catalogKey,       \* FuzzySearchBox prop, from the route params
    throttledQuery,   \* useThrottle(query, 100): the committed query
    timer,            \* useThrottle: the armed timer (its value) or NoTimer
    pendingEffect,    \* search effect scheduled by the last commit, not yet run
    microtask,        \* callback queued by queueMicrotask, not yet run
    focused,          \* the text field has keyboard focus
    popupOpen,        \* Popover.Root open, as last rendered
    location,         \* router location, set by navigate()
    lastEvent,        \* history: the handler that took the last step
    resultsFor,       \* history: catalog and query the displayed results came from
    activated,        \* history: a result was activated and no text entered since
    burst             \* history: text changes and searches of the current burst

vars == <<exportedData, textNodes, indexByCatalog, builtIndex, lastSearch, query, results, activeIndex,
          catalogKey, throttledQuery, timer, pendingEffect, microtask, focused,
          popupOpen, location, lastEvent, resultsFor, activated, burst>>

boxVars == <<query, results, activeIndex, catalogKey, throttledQuery, timer,
             pendingEffect, microtask, focused, popupOpen, location, lastEvent,
             resultsFor, activated, burst>>

----------------------------------------------------------------------------
(* Bounds of the checked input families *)

MaxDatabases == 2
MaxTables == 1
MaxColumns == 2
MaxPartitions == 1
MaxLimit == 4
MaxTextLen == 3
MaxRanges == 2

(* Program constants *)

BIAS == 5
SEARCH_LIMIT == 10

----------------------------------------------------------------------------
(* Values *)

NoMatch == [isMatch |-> FALSE, score |-> 100]
Match(s) == [isMatch |-> TRUE, score |-> s]
Null == "null"
NullList == [isNull |-> TRUE, list |-> <<>>]
List(l) == [isNull |-> FALSE, list |-> l]
NoSearch == [called |-> FALSE]
NoTimer == [armed |-> FALSE]
NoEffect == [pending |-> FALSE]
NoMicrotask == [queued |-> FALSE]
NoText == [text |-> <<>>, ranges |-> <<>>, nodes |-> <<>>, rendered |-> FALSE]
NoBurst == [changes |-> 0, committed |-> "", searches |-> <<>>]

Queries == {"", "cus", "customer"}
RawScores == {0, 5, 10}

Min(a, b) == IF a <= b THEN a ELSE b

----------------------------------------------------------------------------
(* Matching engine: the raw score of one document for every query.  The     *)
(* empty pattern matches nothing; the longer pattern is stricter.  A       *)
(* rejected document has isMatch FALSE, as in Bitap's searchIn.            *)

Stricter(m) ==
    IF ~m.isMatch \/ m.score = 10 THEN NoMatch ELSE Match(m.score + 5)

ScoreTable(m) ==
    [q \in Queries |-> IF q = "" THEN NoMatch
                       ELSE IF q = "cus" THEN m
                       ELSE Stricter(m)]

ScoreTables == {ScoreTable(m) : m \in {Match(s) : s \in RawScores} \cup {NoMatch}}

----------------------------------------------------------------------------
(* Strings that hold a "/" are kept with their characters: Chars gives    *)
(* the pieces of a string, the "/" characters apart, and Str is the        *)
(* string of a list of pieces.  "%2F" is the escape of "/".                *)

SlashedNames ==
    [s \in {"raw/sales", "eu/customer", "raw%2Fsales", "eu%2Fcustomer"} |->
        IF s = "raw/sales" THEN <<"raw", "/", "sales">>
        ELSE IF s = "eu/customer" THEN <<"eu", "/", "customer">>
        ELSE IF s = "raw%2Fsales" THEN <<"raw", "%2F", "sales">>
        ELSE <<"eu", "%2F", "customer">>]

Chars(s) == IF s \in DOMAIN SlashedNames THEN SlashedNames[s] ELSE <<s>>

RECURSIVE Str(_)
Str(cs) == IF cs = <<>> THEN "" ELSE Head(cs) \o Str(Tail(cs))

RECURSIVE Flatten(_)
Flatten(ss) == IF ss = <<>> THEN <<>> ELSE Head(ss) \o Flatten(Tail(ss))

(* encodeURIComponent escapes "/" as "%2F" *)
encodeURIComponent(s) ==
    Str([i \in 1..Len(Chars(s)) |->
            IF Chars(s)[i] = "/" THEN "%2F" ELSE Chars(s)[i]])

(* react-router generatePath('/:a/:b...', params): every parameter is put  *)
(* into the path as it is, after a "/"; an empty parameter is left out     *)
generatePath(params) ==
    Flatten([i \in 1..Len(params) |->
                IF params[i] = "" THEN <<>> ELSE <<"/">> \o Chars(params[i])])

(* the router: the path is cut at every "/", each segment is decoded and   *)
(* becomes a route parameter; the routes take one to three segments        *)
RECURSIVE SplitPath(_)
SplitPath(path) ==
    IF path = <<>> THEN <<>>
    ELSE IF Head(path) = "/"
         THEN <<<<>>>> \o SplitPath(Tail(path))
         ELSE LET rest == SplitPath(Tail(path))
              IN  IF rest = <<>> THEN <<<<Head(path)>>>>
                  ELSE <<<<Head(path)>> \o Head(rest)>> \o Tail(rest)

Segments(path) == SelectSeq(SplitPath(path), LAMBDA seg : seg # <<>>)

decodeURIComponent(cs) == [i \in 1..Len(cs) |-> IF cs[i] = "%2F" THEN "/" ELSE cs[i]]

matchRoutes(path) ==
    LET segs == Segments(path)
    IN  IF Len(segs) \in 1..3
        THEN [matched |-> TRUE,
              params |-> [i \in 1..Len(segs) |-> Str(decodeURIComponent(segs[i]))]]
        ELSE [matched |-> FALSE, params |-> <<>>]

(* Array.prototype.find by name: the position of the first entry, or 0 *)
FindByName(entries, key) ==
    IF \E i \in 1..Len(entries) : entries[i].name = key
    THEN CHOOSE i \in 1..Len(entries) :
            /\ entries[i].name = key
            /\ \A j \in 1..(i - 1) : entries[j].name # key
    ELSE 0

NotFound == [status |-> 404, params |-> <<>>]

(* the loaders of the matched routes: 404 when the catalog, the database   *)
(* or the table of the parameters is not in the metadata                   *)
RouteResponse(data, path) ==
    LET m == matchRoutes(path)
        p == m.params
        c == FindByName(data.catalogs, p[1])
        d == FindByName(data.catalogs[c].databases, p[2])
        t == FindByName(data.catalogs[c].databases[d].tables, p[3])
    IN  IF ~m.matched THEN NotFound
        ELSE IF c = 0 THEN NotFound
        ELSE IF Len(p) = 1 THEN [status |-> 200, params |-> p]
        ELSE IF d = 0 THEN NotFound
        ELSE IF Len(p) = 2 THEN [status |-> 200, params |-> p]
        ELSE IF t = 0 THEN NotFound
        ELSE [status |-> 200, params |-> p]

(* DatabaseKeyPage: the Sidebar's onValueChange navigates to the table *)
SidebarTableUrl(catalog, database, tableKey) ==
    generatePath(<<catalog.name, database.name, encodeURIComponent(tableKey)>>)

(* buildIndexForCatalog *)

DatabaseItem(catalog, database) ==
    [kind |-> "database",
     resourceUrl |-> generatePath(<<catalog.name, database.name>>),
     databaseName |-> database.name]

TableItem(catalog, database, table) ==
    [kind |-> "table",
     resourceUrl |-> generatePath(<<catalog.name, database.name, table.name>>),
     databaseName |-> database.name,
     tableName |-> table.name]

ColumnItem(catalog, database, table, column) ==
    [kind |-> "column",
     resourceUrl |-> generatePath(<<catalog.name, database.name, table.name>>),
     databaseName |-> database.name,
     tableName |-> table.name,
     columnOrPartitionName |-> column.name,
     typeInfo |-> column.type]

PartitionItem(catalog, database, table, partition) ==
    [kind |-> "partition",
     resourceUrl |-> generatePath(<<catalog.name, database.name, table.name>>),
     databaseName |-> database.name,
     tableName |-> table.name,
     columnOrPartitionName |-> partition.column_name,
     typeInfo |-> partition.type_annotation]

ColumnsOf(table) == IF table.columns.isNull THEN <<>> ELSE table.columns.list

TableFineItems_ColumnsOnly(catalog, database, table) ==
    [i \in 1..Len(ColumnsOf(table)) |->
        ColumnItem(catalog, database, table, ColumnsOf(table)[i])]

TableFineItems(catalog, database, table) ==
    [i \in 1..Len(ColumnsOf(table)) |->
        ColumnItem(catalog, database, table, ColumnsOf(table)[i])]
    \o
    [i \in 1..Len(table.partitions) |->
        PartitionItem(catalog, database, table, table.partitions[i])]

DatabaseCoarseItems(catalog, database) ==
    <<DatabaseItem(catalog, database)>>
    \o
    [i \in 1..Len(database.tables) |->
        TableItem(catalog, database, database.tables[i])]

DatabaseFineItems_SkipsNull(catalog, database) ==
    Flatten([i \in 1..Len(database.tables) |->
        IF database.tables[i].columns.isNull THEN <<>>
        ELSE TableFineItems(catalog, database, database.tables[i])])

DatabaseFineItems(catalog, database) ==
    Flatten([i \in 1..Len(database.tables) |->
        TableFineItems(catalog, database, database.tables[i])])

databasesAndTablesIndex(catalog) ==
    Flatten([i \in 1..Len(catalog.databases) |->
        DatabaseCoarseItems(catalog, catalog.databases[i])])

columnsAndPartitionsIndex(catalog) ==
    Flatten([i \in 1..Len(catalog.databases) |->
        DatabaseFineItems(catalog, catalog.databases[i])])

(* new Fuse(items, { keys, includeMatches, includeScore }) *)
NewFuse(items, keys, matcher) ==
    [docs |-> [i \in 1..Len(items) |->
                  [item |-> items[i], match |-> matcher[items[i]]]],
     keys |-> keys]

buildIndexForCatalog(catalog, matcher) ==
    [databasesAndTables |->
        NewFuse(databasesAndTablesIndex(catalog),
                <<"databaseName", "tableName">>, matcher),
     columnsAndPartitions |->
        NewFuse(columnsAndPartitionsIndex(catalog),
                <<"databaseName", "tableName", "columnOrPartitionName">>, matcher)]

ItemSet(catalog) ==
    {databasesAndTablesIndex(catalog)[i] :
        i \in 1..Len(databasesAndTablesIndex(catalog))}
    \cup
    {columnsAndPartitionsIndex(catalog)[i] :
        i \in 1..Len(columnsAndPartitionsIndex(catalog))}

----------------------------------------------------------------------------
(* Fuse.search(query, { limit }) and searchSegmentedIndex *)

(* Array.prototype.slice(0, limit), limit >= 0 *)
Slice_NoTruncate(s, limit) == s

Slice(s, limit) == SubSeq(s, 1, Min(limit, Len(s)))

(* Insertion behind every element that does not compare greater: the      *)
(* position a stable ascending sort gives r when r comes last in the input *)
InsertStable(sorted, r) ==
    LET n == Cardinality({i \in 1..Len(sorted) : sorted[i].score <= r.score})
    IN  SubSeq(sorted, 1, n) \o <<r>> \o SubSeq(sorted, n + 1, Len(sorted))

RECURSIVE SortAsc(_)
SortAsc(s) ==
    IF s = <<>> THEN <<>>
    ELSE InsertStable(SortAsc(SubSeq(s, 1, Len(s) - 1)), s[Len(s)])

RECURSIVE FuseMatches(_, _, _)
FuseMatches_Unfiltered(docs, q, i) ==
    [k \in 1..(Len(docs) + 1 - i) |->
        [item |-> docs[k + i - 1].item, refIndex |-> k + i - 2,
         score |-> docs[k + i - 1].match[q].score]]

FuseMatches(docs, q, i) ==
    IF i > Len(docs) THEN <<>>
    ELSE (IF ~docs[i].match[q].isMatch THEN <<>>
          ELSE <<[item |-> docs[i].item, refIndex |-> i - 1,
                  score |-> docs[i].match[q].score]>>)
         \o FuseMatches(docs, q, i + 1)

FuseSearch_CapsBeforeSort(fuse, q, limit) ==
    SortAsc(Slice(FuseMatches(fuse.docs, q, 1), limit))

FuseSearch(fuse, q, limit) ==
    Slice(SortAsc(FuseMatches(fuse.docs, q, 1)), limit)

ApplyBias_None(res) == res

ApplyBias(res) ==
    [i \in 1..Len(res) |-> [res[i] EXCEPT !.score = @ - BIAS]]

(* a sort that puts an element in front of its equals *)
InsertBeforeEqual(sorted, r) ==
    LET n == Cardinality({i \in 1..Len(sorted) : sorted[i].score < r.score})
    IN  SubSeq(sorted, 1, n) \o <<r>> \o SubSeq(sorted, n + 1, Len(sorted))

RECURSIVE SortAscUnstable(_)
SortAscUnstable(s) ==
    IF s = <<>> THEN <<>>
    ELSE InsertBeforeEqual(SortAscUnstable(SubSeq(s, 1, Len(s) - 1)), s[Len(s)])

CombinedSort_Unstable(combined) == SortAscUnstable(combined)

CombinedSort(combined) == SortAsc(combined)

searchSegmentedIndex(index, q, limit) ==
    LET databasesAndTablesResults == FuseSearch(index.databasesAndTables, q, limit)
        columnsAndPartitionsResults == FuseSearch(index.columnsAndPartitions, q, limit)
        combined == ApplyBias(databasesAndTablesResults) \o columnsAndPartitionsResults
    IN  Slice(CombinedSort(combined), limit)

(* What the call leaves in the Fuse collections: the score assignment      *)
(* targets the result wrappers Fuse creates for each call, so the          *)
(* documents of the collection keep their scores.                          *)
ScoresAfterAssign_Shared(fuse, q, limit) ==
    [fuse EXCEPT !.docs =
        [i \in 1..Len(fuse.docs) |->
            IF \E k \in 1..Len(FuseSearch(fuse, q, limit)) :
                  FuseSearch(fuse, q, limit)[k].refIndex = i - 1
            THEN [fuse.docs[i] EXCEPT !.match[q].score = @ - BIAS]
            ELSE fuse.docs[i]]]

ScoresAfterAssign(fuse, q, limit) == fuse

IndexAfterSearch_Truncates(index, q, limit) ==
    [index EXCEPT !.columnsAndPartitions.docs =
        SubSeq(@, 1, Min(Len(@), Len(FuseSearch(index.columnsAndPartitions, q, limit))))]

IndexAfterSearch(index, q, limit) ==
    [index EXCEPT !.databasesAndTables = ScoresAfterAssign(@, q, limit)]

----------------------------------------------------------------------------
(* Searches on indexes of bounded catalogs *)

Names(prefix, n) == [i \in 1..n |-> <<prefix, i>>]

DatabaseNames == <<"sales", "mart", "ops", "hr">>
TableNames == <<"customer", "orders", "lineitem", "part">>
ColumnNames == <<"custkey", "name", "address", "phone">>
PartitionNames == <<"region", "day", "hour">>

SearchTable(name, m, p) ==
    [name |-> name,
     columns |-> List([i \in 1..m |-> [name |-> ColumnNames[i], type |-> "int"]]),
     partitions |-> [i \in 1..p |-> [column_name |-> PartitionNames[i],
                                     type_annotation |-> Null]]]

SearchCatalog(k, m, p) ==
    [name |-> "tpc-h",
     databases |-> <<[name |-> "db",
                      tables |-> [i \in 1..k |->
                          SearchTable(TableNames[i], IF i = 1 THEN m ELSE 0,
                                                    IF i = 1 THEN p ELSE 0)]]>>]

SearchCatalogs ==
    {SearchCatalog(k, m, p) :
        k \in 0..MaxTables, m \in 0..MaxColumns, p \in 0..MaxPartitions}

BoxIdle ==
    /\ query = ""
    /\ results = <<>>
    /\ activeIndex = 0
    /\ throttledQuery = ""
    /\ timer = NoTimer
    /\ pendingEffect = NoEffect
    /\ microtask = NoMicrotask
    /\ focused = FALSE
    /\ popupOpen = FALSE
    /\ lastEvent = "init"
    /\ resultsFor = [ck |-> catalogKey, tq |-> ""]
    /\ activated = FALSE
    /\ burst = NoBurst

InitSearch ==
    /\ \E catalog \in SearchCatalogs :
         \E matcher \in [ItemSet(catalog) -> ScoreTables] :
            /\ exportedData = [catalogs |-> <<catalog>>]
            /\ textNodes = NoText
            /\ indexByCatalog = (catalog.name :> buildIndexForCatalog(catalog, matcher))
    /\ builtIndex = indexByCatalog
    /\ lastSearch = NoSearch
    /\ catalogKey = "tpc-h"
    /\ location = generatePath(<<"tpc-h">>)
    /\ BoxIdle

SearchCall(c, q, limit) ==
    [called |-> TRUE, catalog |-> c, query |-> q, limit |-> limit,
     out |-> searchSegmentedIndex(indexByCatalog[c], q, limit),
     repeat |-> /\ lastSearch.called
                /\ lastSearch.catalog = c
                /\ lastSearch.query = q
                /\ lastSearch.limit = limit]

CallSearch(c, q, limit) ==
    /\ lastSearch' = SearchCall(c, q, limit)
    /\ indexByCatalog' =
          [indexByCatalog EXCEPT ![c] = IndexAfterSearch(@, q, limit)]
    /\ UNCHANGED <<exportedData, textNodes, builtIndex>>
    /\ UNCHANGED boxVars

NextSearch ==
    \E c \in DOMAIN indexByCatalog, q \in Queries, limit \in 0..MaxLimit :
        CallSearch(c, q, limit)

SpecSearch == InitSearch /\ [][NextSearch]_vars

----------------------------------------------------------------------------
(* FuzzySearchBox *)

(* The export the site was built from *)
neuralake ==
    [catalogs |-> <<
        [name |-> "tpc-h",
         databases |-> <<
            [name |-> "sales",
             tables |-> <<
                [name |-> "customer",
                 columns |-> List(<<[name |-> "c_custkey", type |-> "int64"]>>),
                 partitions |-> <<>>],
                [name |-> "orders",
                 columns |-> List(<<[name |-> "o_custkey", type |-> "int64"]>>),
                 partitions |-> <<>>]>>]>>],
        [name |-> "ssb",
         databases |-> <<
            [name |-> "mart",
             tables |-> <<
                [name |-> "customer",
                 columns |-> NullList,
                 partitions |-> <<[column_name |-> "cust_region",
                                   type_annotation |-> Null]>>]>>]>>]>>]

CatalogNames == {neuralake.catalogs[i].name : i \in 1..Len(neuralake.catalogs)}

(* The engine's verdict on the sample export *)
SampleMatch(item) ==
    IF item.kind = "database" THEN NoMatch
    ELSE IF item.kind = "table"
         THEN (IF item.tableName = "customer"
               THEN (IF item.databaseName = "sales" THEN Match(0) ELSE Match(5))
               ELSE NoMatch)
    ELSE IF item.columnOrPartitionName = "c_custkey" THEN Match(5)
    ELSE Match(10)

SampleMatcher(catalog) ==
    [item \in ItemSet(catalog) |-> ScoreTable(SampleMatch(item))]

(* Popover.Root open={results.length > 0} *)
PopoverOpen_Several(res) == Len(res) > 1

PopoverOpen(res) == Len(res) > 0

(* useThrottle(query, 100): a change of the value restarts the timer *)
ThrottleTimer(q, q2, t) ==
    IF q2 # q THEN [armed |-> TRUE, value |-> q2] ELSE t

(* dependency list of the search effect: [ throttledQuery, catalogKey ] *)
DepsChanged_Query(tq, ck, q2, tq2, ck2) == q2 # query \/ ck2 # ck

DepsChanged(tq, ck, q2, tq2, ck2) == tq2 # tq \/ ck2 # ck

(* results[activeIndex] *)
HasActiveItem(res, ai) == ai + 1 \in 1..Len(res)
ActiveItem_First(res, ai) == res[1]

ActiveItem(res, ai) == res[ai + 1]

(* setResults(results) in the microtask *)
AppliedResults_Merged(prev, new) == prev \o new

AppliedResults(prev, new) == new

(* indexByCatalog.get(catalogKey): undefined for a key without an index *)
IndexOfCatalog_Default(ck) ==
    [found |-> TRUE,
     index |-> IF ck \in DOMAIN indexByCatalog THEN indexByCatalog[ck]
               ELSE indexByCatalog[neuralake.catalogs[1].name]]

IndexOfCatalog(ck) ==
    IF ck \in DOMAIN indexByCatalog
    THEN [found |-> TRUE, index |-> indexByCatalog[ck]]
    ELSE [found |-> FALSE]

(* body of the search effect, up to queueMicrotask *)
EffectResults_FirstCatalog(eff) ==
    searchSegmentedIndex(indexByCatalog[neuralake.catalogs[1].name], eff.tq,
                         SEARCH_LIMIT)

EffectResults(eff) ==
    IF IndexOfCatalog(eff.ck).found
    THEN searchSegmentedIndex(IndexOfCatalog(eff.ck).index, eff.tq, SEARCH_LIMIT)
    ELSE <<>>

(* React runs the effect of the previous commit before it renders again *)
FlushPassiveEffects ==
    IF pendingEffect.pending
    THEN /\ microtask' = [queued |-> TRUE,
                          results |-> EffectResults(pendingEffect),
                          for |-> [ck |-> pendingEffect.ck, tq |-> pendingEffect.tq]]
         /\ IF pendingEffect.ck \in DOMAIN indexByCatalog
            THEN /\ lastSearch' = SearchCall(pendingEffect.ck, pendingEffect.tq, SEARCH_LIMIT)
                 /\ indexByCatalog' =
                       [indexByCatalog EXCEPT ![pendingEffect.ck] =
                           IndexAfterSearch(@, pendingEffect.tq, SEARCH_LIMIT)]
            ELSE UNCHANGED <<lastSearch, indexByCatalog>>
    ELSE /\ microtask' = NoMicrotask
         /\ UNCHANGED <<lastSearch, indexByCatalog>>

(* history of the current burst of text changes: a change while no timer  *)
(* is armed begins a burst; searches lists the committed queries the      *)
(* search effect was scheduled for since                                   *)
BurstAfterCommit(q2, eff2, ck2) ==
    LET b == IF q2 = query THEN burst
             ELSE IF timer.armed
                  THEN [burst EXCEPT !.changes = Min(@ + 1, 2)]
                  ELSE [changes |-> 1, committed |-> throttledQuery,
                        searches |-> <<>>]
    IN  IF eff2.pending /\ ck2 = catalogKey
        THEN [b EXCEPT !.searches = Append(@, eff2.tq)]
        ELSE b

(* A commit: the pending effect runs first, the new render schedules the  *)
(* effect again when a dependency changed                                  *)
Render ==
    /\ FlushPassiveEffects
    /\ pendingEffect' =
          IF DepsChanged(throttledQuery, catalogKey, query', throttledQuery', catalogKey')
          THEN [pending |-> TRUE, tq |-> throttledQuery', ck |-> catalogKey']
          ELSE NoEffect
    /\ popupOpen' = PopoverOpen(results')
    /\ burst' = BurstAfterCommit(query', pendingEffect', catalogKey')

NoRender ==
    UNCHANGED <<microtask, lastSearch, indexByCatalog, pendingEffect, popupOpen,
                burst>>

SetQuery(q2) ==
    /\ query' = q2
    /\ timer' = ThrottleTimer(query, q2, timer)

Init ==
    /\ exportedData = neuralake
    /\ textNodes = NoText
    /\ indexByCatalog =
          [c \in CatalogNames |->
              LET catalog == CHOOSE x \in {neuralake.catalogs[i] :
                                 i \in 1..Len(neuralake.catalogs)} : x.name = c
              IN  buildIndexForCatalog(catalog, SampleMatcher(catalog))]
    /\ builtIndex = indexByCatalog
    /\ lastSearch = NoSearch
    /\ catalogKey = neuralake.catalogs[1].name
    /\ location = generatePath(<<neuralake.catalogs[1].name>>)
    /\ BoxIdle

(* the box mounted with a catalogKey that is not a key of indexByCatalog *)
UnindexedKey == "archive"

InitUnindexed ==
    /\ exportedData = neuralake
    /\ textNodes = NoText
    /\ indexByCatalog =
          [c \in CatalogNames |->
              LET catalog == CHOOSE x \in {neuralake.catalogs[i] :
                                 i \in 1..Len(neuralake.catalogs)} : x.name = c
              IN  buildIndexForCatalog(catalog, SampleMatcher(catalog))]
    /\ builtIndex = indexByCatalog
    /\ lastSearch = NoSearch
    /\ catalogKey = UnindexedKey
    /\ location = generatePath(<<UnindexedKey>>)
    /\ BoxIdle

Idle == ~microtask.queued

(* onChange *)
Type_ClearsResults(v) ==
    /\ Idle /\ focused
    /\ v # query
    /\ SetQuery(v)
    /\ results' = <<>>
    /\ activated' = FALSE
    /\ lastEvent' = "Type"
    /\ UNCHANGED <<exportedData, textNodes, builtIndex, activeIndex, catalogKey,
                   throttledQuery, focused, location, resultsFor>>
    /\ Render

Type(v) ==
    /\ Idle /\ focused
    /\ v # query
    /\ SetQuery(v)
    /\ activated' = FALSE
    /\ lastEvent' = "Type"
    /\ UNCHANGED <<exportedData, textNodes, builtIndex, results, activeIndex, catalogKey, throttledQuery,
                   focused, location, resultsFor>>
    /\ Render

(* the timer of useThrottle fires *)
TimerFire ==
    /\ Idle
    /\ timer.armed
    /\ timer' = NoTimer
    /\ throttledQuery' = timer.value
    /\ lastEvent' = "TimerFire"
    /\ UNCHANGED <<exportedData, textNodes, builtIndex, query, results, activeIndex, catalogKey, focused,
                   location, resultsFor, activated>>
    /\ IF timer.value # throttledQuery THEN Render ELSE NoRender

(* the scheduler runs the pending effect *)
RunEffect ==
    /\ Idle
    /\ pendingEffect.pending
    /\ FlushPassiveEffects
    /\ pendingEffect' = NoEffect
    /\ lastEvent' = "RunEffect"
    /\ UNCHANGED <<exportedData, textNodes, builtIndex, query, results, activeIndex, catalogKey,
                   throttledQuery, timer, focused, popupOpen, location,
                   resultsFor, activated, burst>>

(* flushSync(() => { setResults(results); setActiveIndex(0) }) *)
AppliedActiveIndex_Kept(ai) == ai

AppliedActiveIndex(ai) == 0

(* if (results.length > 0) textFieldRef.current?.focus() *)
FocusAfterApply_Always(res, f) == TRUE

FocusAfterApply(res, f) == IF Len(res) > 0 THEN TRUE ELSE f

(* the callback of queueMicrotask *)
RunMicrotask ==
    /\ microtask.queued
    /\ results' = AppliedResults(results, microtask.results)
    /\ activeIndex' = AppliedActiveIndex(activeIndex)
    /\ focused' = FocusAfterApply(microtask.results, focused)
    /\ resultsFor' = microtask.for
    /\ lastEvent' = "RunMicrotask"
    /\ UNCHANGED <<exportedData, textNodes, builtIndex, query, catalogKey, throttledQuery, timer,
                   location, activated>>
    /\ Render

onActivate_ToCatalog(item) ==
    /\ SetQuery("")
    /\ results' = <<>>
    /\ focused' = FALSE
    /\ location' = generatePath(<<catalogKey>>)
    /\ activated' = TRUE
    /\ UNCHANGED <<exportedData, textNodes, builtIndex, activeIndex, catalogKey,
                   throttledQuery, resultsFor>>
    /\ Render

onActivate(item) ==
    /\ SetQuery("")
    /\ results' = <<>>
    /\ focused' = FALSE
    /\ location' = item.resourceUrl
    /\ activated' = TRUE
    /\ UNCHANGED <<exportedData, textNodes, builtIndex, activeIndex, catalogKey, throttledQuery, resultsFor>>
    /\ Render

Unhandled ==
    /\ NoRender
    /\ UNCHANGED <<exportedData, textNodes, builtIndex, query, results, activeIndex, catalogKey,
                   throttledQuery, timer, focused, location, resultsFor,
                   activated>>

(* onKeyDown *)
Escape_KeepsResults ==
    /\ Idle /\ focused
    /\ lastEvent' = "Escape"
    /\ SetQuery("")
    /\ UNCHANGED <<exportedData, textNodes, builtIndex, results, activeIndex, catalogKey, throttledQuery,
                   focused, location, resultsFor, activated>>
    /\ Render

Escape ==
    /\ Idle /\ focused
    /\ lastEvent' = "Escape"
    /\ SetQuery("")
    /\ results' = <<>>
    /\ UNCHANGED <<exportedData, textNodes, builtIndex, activeIndex, catalogKey, throttledQuery, focused,
                   location, resultsFor, activated>>
    /\ Render

Enter ==
    /\ Idle /\ focused
    /\ lastEvent' = "Enter"
    /\ IF HasActiveItem(results, activeIndex)
       THEN onActivate(ActiveItem(results, activeIndex).item)
       ELSE Unhandled

SetActiveIndex(i) ==
    /\ activeIndex' = i
    /\ UNCHANGED <<exportedData, textNodes, builtIndex, query, results, catalogKey, throttledQuery, timer,
                   focused, location, resultsFor, activated>>
    /\ IF i # activeIndex THEN Render ELSE NoRender

(* activeIndex === 0 ? results.length - 1 : activeIndex - 1 *)
ArrowUpIndex_NoWrap(ai, n) == IF ai = 0 THEN 0 ELSE ai - 1

ArrowUpIndex(ai, n) == IF ai = 0 THEN n - 1 ELSE ai - 1

(* ((activeIndex + 1) % results.length) || 0: the remainder by 0 is NaN *)
ArrowDownIndex_KeepsOnEmpty(ai, n) == IF n = 0 THEN ai ELSE (ai + 1) % n

ArrowDownIndex(ai, n) == IF n = 0 THEN 0 ELSE (ai + 1) % n

ArrowUp ==
    /\ Idle /\ focused
    /\ lastEvent' = "ArrowUp"
    /\ IF Len(results) > 0
       THEN SetActiveIndex(ArrowUpIndex(activeIndex, Len(results)))
       ELSE Unhandled

ArrowDown ==
    /\ Idle /\ focused
    /\ lastEvent' = "ArrowDown"
    /\ SetActiveIndex(ArrowDownIndex(activeIndex, Len(results)))

(* the pointerdown listener on window *)
ListenerClears_Either(isInTextField, isInPopup) == ~isInTextField \/ ~isInPopup

ListenerClears(isInTextField, isInPopup) == ~isInTextField /\ ~isInPopup

WindowListener(isInTextField, isInPopup) ==
    IF ListenerClears(isInTextField, isInPopup)
    THEN SetQuery("") /\ results' = <<>>
    ELSE UNCHANGED <<query, results, timer>>

(* onPointerDown and onClick of the i-th result button *)
PointerDownResult(i) ==
    /\ Idle
    /\ i \in 0..(Len(results) - 1)
    /\ lastEvent' = "PointerDownResult"
    /\ activeIndex' = i
    /\ WindowListener(FALSE, TRUE)
    /\ UNCHANGED <<exportedData, textNodes, builtIndex, catalogKey, throttledQuery, focused, location,
                   resultsFor, activated>>
    /\ IF ListenerClears(FALSE, TRUE) \/ i # activeIndex THEN Render ELSE NoRender

(* results.map((result, index) => ... onClick={() => onActivate(result.item)}) *)
ClickedItem_Active(res, i, ai) == res[ai + 1]

ClickedItem(res, i, ai) == res[i + 1]

ClickEvent(i) == <<"ClickResult0", "ClickResult1", "ClickResult2">>[i + 1]

ClickResult(i) ==
    /\ Idle
    /\ i \in 0..(Len(results) - 1)
    /\ lastEvent' = ClickEvent(i)
    /\ onActivate(ClickedItem(results, i, activeIndex).item)

(* pointer-down on the text field and outside of field and popup *)
PointerDownTextField ==
    /\ Idle
    /\ lastEvent' = "PointerDownTextField"
    /\ focused' = TRUE
    /\ WindowListener(TRUE, FALSE)
    /\ UNCHANGED <<exportedData, textNodes, builtIndex, activeIndex, catalogKey, throttledQuery,
                   location, resultsFor, activated>>
    /\ IF ListenerClears(TRUE, FALSE) THEN Render ELSE NoRender

PointerDownOutside ==
    /\ Idle
    /\ lastEvent' = "PointerDownOutside"
    /\ focused' = FALSE
    /\ WindowListener(FALSE, FALSE)
    /\ UNCHANGED <<exportedData, textNodes, builtIndex, activeIndex, catalogKey, throttledQuery,
                   location, resultsFor, activated>>
    /\ IF ListenerClears(FALSE, FALSE) THEN Render ELSE NoRender

(* RootPage: the catalog is chosen, the router starts the navigation *)
SelectCatalog(c) ==
    /\ Idle
    /\ c # catalogKey
    /\ lastEvent' = "SelectCatalog"
    /\ location' = generatePath(<<c>>)
    /\ NoRender
    /\ UNCHANGED <<exportedData, textNodes, builtIndex, query, results, activeIndex, catalogKey,
                   throttledQuery, timer, focused, resultsFor, activated>>

(* the router commits the location: RootPage renders with its catalogKey *)
RouterCommit ==
    /\ Idle
    /\ RouteResponse(exportedData, location).status = 200
    /\ RouteResponse(exportedData, location).params[1] # catalogKey
    /\ lastEvent' = "RouterCommit"
    /\ catalogKey' = RouteResponse(exportedData, location).params[1]
    /\ UNCHANGED <<exportedData, textNodes, builtIndex, query, results, activeIndex, throttledQuery, timer,
                   focused, location, resultsFor, activated>>
    /\ Render



Next ==
    \/ \E v \in Queries : Type(v)
    \/ TimerFire
    \/ RunEffect
    \/ RunMicrotask
    \/ Escape
    \/ Enter
    \/ ArrowUp
    \/ ArrowDown
    \/ \E i \in 0..2 : PointerDownResult(i)
    \/ \E i \in 0..2 : ClickResult(i)
    \/ PointerDownTextField
    \/ PointerDownOutside
    \/ \E c \in CatalogNames : SelectCatalog(c)
    \/ RouterCommit

Spec == Init /\ [][Next]_vars

SpecUnindexed == InitUnindexed /\ [][Next]_vars

----------------------------------------------------------------------------
(* Loading fuzzy-search.ts: one index per catalog of the exported metadata. *)
(* The metadata is drawn from a family of catalogs with up to MaxDatabases *)
(* databases of up to MaxTables tables, each with null or up to MaxColumns *)
(* columns and up to MaxPartitions partitions; the first database or the   *)
(* first table of a database may have a name that holds a "/".             *)

BuildTable(name, shape) ==
    [name |-> name,
     columns |-> IF shape[1] < 0 THEN NullList
                 ELSE List([i \in 1..shape[1] |->
                               [name |-> ColumnNames[i], type |-> "int64"]]),
     partitions |-> [i \in 1..shape[2] |->
                        [column_name |-> PartitionNames[i],
                         type_annotation |-> Null]]]

BuildCatalog(shape, slashed) ==
    [name |-> "tpc-h",
     databases |->
        [i \in 1..Len(shape) |->
            [name |-> IF slashed = "database" /\ i = 1 THEN "raw/sales"
                      ELSE DatabaseNames[i],
             tables |->
                [j \in 1..Len(shape[i]) |->
                    BuildTable(IF slashed = "table" /\ j = 1 THEN "eu/customer"
                               ELSE TableNames[j],
                               shape[i][j])]]]]

TableShapes == ((-1)..MaxColumns) \X (0..MaxPartitions)
DatabaseShapes == UNION {[1..k -> TableShapes] : k \in 0..MaxTables}
CatalogShapes == UNION {[1..n -> DatabaseShapes] : n \in 0..MaxDatabases}

BuildExports ==
    {[catalogs |-> <<BuildCatalog(shape, slashed), neuralake.catalogs[2]>>] :
        shape \in CatalogShapes, slashed \in {"none", "database", "table"}}

BuildMatcher(catalog) == [item \in ItemSet(catalog) |-> ScoreTable(Match(0))]

NoIndexes == [c \in {} |-> {}]

(* for (const catalog of neuralake.catalogs)                               *)
(*   indexByCatalog.set(catalog.name, buildIndexForCatalog(catalog))       *)
LoadedIndexes(data) ==
    [c \in {data.catalogs[i].name : i \in 1..Len(data.catalogs)} |->
        LET last == CHOOSE i \in 1..Len(data.catalogs) :
                       /\ data.catalogs[i].name = c
                       /\ \A j \in (i + 1)..Len(data.catalogs) :
                             data.catalogs[j].name # c
        IN  buildIndexForCatalog(data.catalogs[last],
                                 BuildMatcher(data.catalogs[last]))]

InitBuild ==
    /\ exportedData \in BuildExports
    /\ textNodes = NoText
    /\ indexByCatalog = NoIndexes
    /\ builtIndex = NoIndexes
    /\ lastSearch = NoSearch
    /\ catalogKey = exportedData.catalogs[1].name
    /\ location = generatePath(<<exportedData.catalogs[1].name>>)
    /\ BoxIdle

LoadIndexes ==
    /\ lastEvent = "init"
    /\ lastEvent' = "LoadIndexes"
    /\ indexByCatalog' = LoadedIndexes(exportedData)
    /\ builtIndex' = indexByCatalog'
    /\ UNCHANGED <<exportedData, textNodes, lastSearch, query, results, activeIndex,
                   catalogKey, throttledQuery, timer, pendingEffect, microtask,
                   focused, popupOpen, location, resultsFor, activated, burst>>

NextBuild == LoadIndexes

SpecBuild == InitBuild /\ [][NextBuild]_vars

----------------------------------------------------------------------------
(* Properties of searchSegmentedIndex *)

IsCoarse(r) == r.item.kind \in {"database", "table"}

SegmentOf(index, r) ==
    IF IsCoarse(r) THEN index.databasesAndTables ELSE index.columnsAndPartitions

RawScore(index, r, q) == SegmentOf(index, r).docs[r.refIndex + 1].match[q].score

PosIn(res, r) == CHOOSE k \in 1..Len(res) : res[k].refIndex = r.refIndex

SearchedIndex == indexByCatalog[lastSearch.catalog]

MatchCount(fuse, q) == Cardinality({i \in 1..Len(fuse.docs) : fuse.docs[i].match[q].isMatch})

(* C1: a call of searchSegmentedIndex with limit >= 0 returns at most     *)
(* limit matches.                                                          *)
C1_AtMostLimit ==
    lastSearch.called => Len(lastSearch.out) <= lastSearch.limit

C1_Witness ==
    /\ lastSearch.called
    /\ lastSearch.limit > 0
    /\ Len(lastSearch.out) = lastSearch.limit
    /\ MatchCount(SearchedIndex.databasesAndTables, lastSearch.query)
         + MatchCount(SearchedIndex.columnsAndPartitions, lastSearch.query)
         > lastSearch.limit

(* C2: the returned list is in ascending order of adjusted score; of two  *)
(* matches with the same adjusted score a databases-and-tables match      *)
(* comes before a columns-and-partitions match, and two matches of one    *)
(* segment keep the order that segment's search returned them in.         *)
DiscoveredBefore(a, b) ==
    \/ IsCoarse(a) /\ ~IsCoarse(b)
    \/ /\ IsCoarse(a) = IsCoarse(b)
       /\ LET res == FuseSearch(SegmentOf(SearchedIndex, a),
                                lastSearch.query, lastSearch.limit)
          IN  PosIn(res, a) < PosIn(res, b)

C2_SortedStable ==
    lastSearch.called =>
        \A i, j \in 1..Len(lastSearch.out) :
            i < j =>
                /\ lastSearch.out[i].score <= lastSearch.out[j].score
                /\ lastSearch.out[i].score = lastSearch.out[j].score
                      => DiscoveredBefore(lastSearch.out[i], lastSearch.out[j])

C2_Witness ==
    /\ lastSearch.called
    /\ \E i, j \in 1..Len(lastSearch.out) :
          /\ i < j
          /\ lastSearch.out[i].score = lastSearch.out[j].score
          /\ IsCoarse(lastSearch.out[i]) /\ ~IsCoarse(lastSearch.out[j])
    /\ \E i, j \in 1..Len(lastSearch.out) :
          /\ i < j
          /\ lastSearch.out[i].score = lastSearch.out[j].score
          /\ IsCoarse(lastSearch.out[i]) = IsCoarse(lastSearch.out[j])
    /\ \E i, j \in 1..Len(lastSearch.out) :
          lastSearch.out[i].score < lastSearch.out[j].score

(* C3: every databases-and-tables match is returned with its raw score    *)
(* minus 0.05 and every columns-and-partitions match with its raw score;  *)
(* a coarse match is at least 0.05 below a fine match of the same raw     *)
(* score and stands before it in the returned list.                       *)
C3_CoarseBias ==
    lastSearch.called =>
        /\ \A i \in 1..Len(lastSearch.out) :
              lastSearch.out[i].score =
                  RawScore(SearchedIndex, lastSearch.out[i], lastSearch.query)
                    - (IF IsCoarse(lastSearch.out[i]) THEN BIAS ELSE 0)
        /\ \A i, j \in 1..Len(lastSearch.out) :
              ( /\ IsCoarse(lastSearch.out[i]) /\ ~IsCoarse(lastSearch.out[j])
                /\ RawScore(SearchedIndex, lastSearch.out[i], lastSearch.query)
                     = RawScore(SearchedIndex, lastSearch.out[j], lastSearch.query) )
              => /\ lastSearch.out[i].score + BIAS <= lastSearch.out[j].score
                 /\ i < j

C3_Witness ==
    /\ lastSearch.called
    /\ \E i, j \in 1..Len(lastSearch.out) :
          /\ IsCoarse(lastSearch.out[i]) /\ ~IsCoarse(lastSearch.out[j])
          /\ RawScore(SearchedIndex, lastSearch.out[i], lastSearch.query)
               = RawScore(SearchedIndex, lastSearch.out[j], lastSearch.query)

----------------------------------------------------------------------------
(* TextWithHighlights: a text is a sequence of characters, a range a pair  *)
(* <<start, end>> of 0-based indices, a node a span with its class and its *)
(* characters.                                                             *)

Alphabet == {"a", "b"}

(* String.prototype.slice(from, to) for 0 <= from, 0 <= to *)
JsSlice(text, from, to) == SubSeq(text, Min(from, Len(text)) + 1, Min(to, Len(text)))

(* text.slice(start, end + 1) *)
HighlightedSlice_Exclusive(text, start, end) == JsSlice(text, start, end)

HighlightedSlice(text, start, end) == JsSlice(text, start, end + 1)

(* the loop over ranges and the final span *)
RECURSIVE HighlightNodes(_, _, _)
HighlightNodes(text, ranges, currentTextIndex) ==
    IF ranges = <<>>
    THEN IF currentTextIndex < Len(text)
         THEN <<[highlighted |-> FALSE,
                 text |-> JsSlice(text, currentTextIndex, Len(text))]>>
         ELSE <<>>
    ELSE LET start == ranges[1][1]
             end == ranges[1][2]
         IN  (IF start > currentTextIndex
              THEN <<[highlighted |-> FALSE,
                      text |-> JsSlice(text, currentTextIndex, start)]>>
              ELSE <<>>)
             \o <<[highlighted |-> TRUE, text |-> HighlightedSlice(text, start, end)]>>
             \o HighlightNodes(text, Tail(ranges), end + 1)

TextWithHighlights(text, ranges) == HighlightNodes(text, ranges, 0)

Texts == UNION {[1..n -> Alphabet] : n \in 0..MaxTextLen}

RangeLists ==
    UNION {[1..n -> (0..(MaxTextLen - 1)) \X (0..(MaxTextLen - 1))] :
              n \in 0..MaxRanges}

InitHighlight ==
    /\ exportedData = neuralake
    /\ \E text \in Texts, ranges \in RangeLists :
          textNodes = [text |-> text, ranges |-> ranges, nodes |-> <<>>,
                       rendered |-> FALSE]
    /\ indexByCatalog = NoIndexes
    /\ builtIndex = NoIndexes
    /\ lastSearch = NoSearch
    /\ catalogKey = neuralake.catalogs[1].name
    /\ location = generatePath(<<neuralake.catalogs[1].name>>)
    /\ BoxIdle

RenderText ==
    /\ ~textNodes.rendered
    /\ textNodes' = [textNodes EXCEPT
                        !.nodes = TextWithHighlights(textNodes.text, textNodes.ranges),
                        !.rendered = TRUE]
    /\ UNCHANGED <<exportedData, indexByCatalog, builtIndex, lastSearch>>
    /\ UNCHANGED boxVars

NextHighlight == RenderText

SpecHighlight == InitHighlight /\ [][NextHighlight]_vars

----------------------------------------------------------------------------
(* Properties of FuzzySearchBox *)

(* C5: a change of the committed query schedules the search effect for    *)
(* that query and the catalog of the box; the effect is never dropped and *)
(* queues the output of searchSegmentedIndex for its catalog and query    *)
(* with limit 10; when the queued callback is applied the displayed       *)
(* results are exactly that output and activeIndex is 0.                  *)
C5_CommittedQuerySearch ==
    [][ /\ throttledQuery' # throttledQuery =>
              pendingEffect' = [pending |-> TRUE, tq |-> throttledQuery',
                                ck |-> catalogKey]
        /\ (pendingEffect.pending /\ pendingEffect' # pendingEffect) =>
              /\ microtask'.queued
              /\ microtask'.for = [ck |-> pendingEffect.ck, tq |-> pendingEffect.tq]
              /\ microtask'.results =
                    searchSegmentedIndex(indexByCatalog[pendingEffect.ck],
                                         pendingEffect.tq, SEARCH_LIMIT)
        /\ microtask.queued =>
              /\ results' = microtask.results
              /\ activeIndex' = 0 ]_vars

C5_Witness ==
    /\ lastEvent = "RunMicrotask"
    /\ resultsFor = [ck |-> "tpc-h", tq |-> "customer"]
    /\ throttledQuery = "customer"
    /\ query = "customer"
    /\ Len(results) = 2
    /\ activeIndex = 0

(* C6 as claimed: when a burst of several text changes is over, exactly   *)
(* one search was issued for it, for the text of the last change.         *)
C6_ExactlyOneSearch ==
    (~timer.armed /\ burst.changes = 2) => burst.searches = <<query>>

(* C6 as amended: no search is issued while the window is open, and when  *)
(* a burst of several changes is over one search was issued, for the text *)
(* of the last change, if that text differs from the query committed      *)
(* before the burst, and none if it is the same.                          *)
C6_AtMostOneSearch ==
    /\ (timer.armed /\ burst.changes >= 1) => burst.searches = <<>>
    /\ (~timer.armed /\ burst.changes = 2) =>
          burst.searches = IF query # burst.committed THEN <<query>> ELSE <<>>

C6_Witness ==
    /\ ~timer.armed
    /\ burst.changes = 2
    /\ query = "customer"
    /\ burst.searches = <<"customer">>

(* C7: in every state in which the box takes events, the displayed        *)
(* results were computed from the index of the catalog the box is bound   *)
(* to, so no result of another catalog can be activated.                  *)
C7_ResultsOfCurrentCatalog ==
    (Idle /\ Len(results) > 0) => resultsFor.ck = catalogKey

(* C8: from an activation until new text is entered, query and results    *)
(* stay empty.                                                             *)
C8_NoResultsAfterActivation ==
    activated => (query = "" /\ results = <<>>)

(* C9: the popup is open iff the result list is not empty. *)
C9_PopupIffResults ==
    popupOpen <=> Len(results) > 0

C9_Witness ==
    /\ popupOpen
    /\ Len(results) = 1
    /\ lastEvent = "RunMicrotask"

(* C10: Enter with a highlighted result clears query and results, blurs   *)
(* the field and navigates to the resourceUrl of results[activeIndex];    *)
(* Enter with an empty result list leaves query, results, activeIndex     *)
(* and the location as they are.                                           *)
C10_EnterActivates ==
    [][ lastEvent' = "Enter" =>
          IF Len(results) > 0
          THEN /\ activeIndex < Len(results)
               /\ query' = ""
               /\ results' = <<>>
               /\ ~focused'
               /\ location' = results[activeIndex + 1].item.resourceUrl
          ELSE UNCHANGED <<query, results, activeIndex, location>> ]_vars

C10_Witness ==
    /\ lastEvent = "Enter"
    /\ activated
    /\ location = generatePath(<<"tpc-h", "sales", "orders">>)
    /\ query = "" /\ results = <<>> /\ ~focused

C10_WitnessEmpty ==
    /\ lastEvent = "Enter"
    /\ ~activated
    /\ query = "cus"
    /\ results = <<>>

(* C11: a click on the i-th displayed result, whatever activeIndex is,    *)
(* clears query and results, blurs the field and navigates to the         *)
(* locator of results[i], as Enter does with activeIndex = i.             *)
C11_ClickActivates ==
    [][ \A i \in 0..2 :
          lastEvent' = ClickEvent(i) =>
              /\ i < Len(results)
              /\ query' = ""
              /\ results' = <<>>
              /\ ~focused'
              /\ activated'
              /\ location' = results[i + 1].item.resourceUrl ]_vars

C11_Witness ==
    /\ lastEvent = ClickEvent(2)
    /\ activeIndex = 0
    /\ activated
    /\ location = generatePath(<<"tpc-h", "sales", "orders">>)
    /\ query = "" /\ results = <<>> /\ ~focused

(* C12: Escape in the search field clears query and results, closes the   *)
(* popup and does not navigate.                                           *)
C12_EscapeClears ==
    [][ lastEvent' = "Escape" =>
          /\ query' = ""
          /\ results' = <<>>
          /\ ~popupOpen'
          /\ location' = location
          /\ activated' = activated ]_vars

C12_Witness ==
    /\ lastEvent = "Escape"
    /\ throttledQuery = "cus"
    /\ resultsFor = [ck |-> "tpc-h", tq |-> "cus"]
    /\ query = "" /\ results = <<>> /\ ~popupOpen

(* C13: with n > 0 results ArrowDown moves activeIndex to                 *)
(* (activeIndex + 1) mod n and ArrowUp to activeIndex - 1, or to n - 1    *)
(* from 0; neither changes query or results.                              *)
C13_ArrowsWrap ==
    [][ Len(results) > 0 =>
          /\ lastEvent' = "ArrowDown" =>
                /\ activeIndex' = (activeIndex + 1) % Len(results)
                /\ UNCHANGED <<query, results>>
          /\ lastEvent' = "ArrowUp" =>
                /\ activeIndex' = IF activeIndex = 0 THEN Len(results) - 1
                                  ELSE activeIndex - 1
                /\ UNCHANGED <<query, results>> ]_vars

C13_Witness ==
    /\ lastEvent = "ArrowUp"
    /\ Len(results) = 3
    /\ activeIndex = 2

C13_WitnessDown ==
    /\ lastEvent = "ArrowDown"
    /\ Len(results) = 3
    /\ activeIndex = 0

(* C14 as claimed: with no results ArrowUp and ArrowDown leave            *)
(* activeIndex, query and results unchanged.                              *)
C14_ArrowsNoOp ==
    [][ (results = <<>> /\ lastEvent' \in {"ArrowUp", "ArrowDown"}) =>
          UNCHANGED <<activeIndex, query, results>> ]_vars

(* C14 as amended: with no results ArrowUp leaves activeIndex, query and  *)
(* results unchanged; ArrowDown leaves query and results unchanged and    *)
(* sets activeIndex to 0.                                                 *)
C14_ArrowsOnEmpty ==
    [][ results = <<>> =>
          /\ lastEvent' = "ArrowUp" => UNCHANGED <<activeIndex, query, results>>
          /\ lastEvent' = "ArrowDown" =>
                /\ activeIndex' = 0
                /\ UNCHANGED <<query, results>> ]_vars

C14_Witness ==
    /\ lastEvent = "ArrowDown"
    /\ results = <<>>
    /\ activeIndex = 0
    /\ throttledQuery = "cus"
    /\ resultsFor = [ck |-> "tpc-h", tq |-> "cus"]

(* C15: a pointer-down outside of the text field and of the popup clears  *)
(* query and results; a pointer-down in the text field or in the popup    *)
(* changes neither.                                                       *)
C15_PointerDown ==
    [][ /\ lastEvent' = "PointerDownOutside" => (query' = "" /\ results' = <<>>)
        /\ lastEvent' \in {"PointerDownTextField", "PointerDownResult"} =>
              UNCHANGED <<query, results>> ]_vars

C15_Witness ==
    /\ lastEvent = "PointerDownOutside"
    /\ throttledQuery = "cus"
    /\ resultsFor = [ck |-> "tpc-h", tq |-> "cus"]
    /\ query = "" /\ results = <<>>

C15_WitnessInside ==
    /\ lastEvent = "PointerDownResult"
    /\ Len(results) = 3
    /\ activeIndex = 2
    /\ query = "cus"

(* C16: a change of the catalog leaves the committed query as it is and   *)
(* schedules the search effect for that query and the new catalog; the    *)
(* effect queues the output of searchSegmentedIndex on the index of the   *)
(* new catalog, and applying it replaces the displayed results by that    *)
(* output with activeIndex 0.                                             *)
C16_CatalogChangeSearches ==
    [][ /\ catalogKey' # catalogKey =>
              /\ throttledQuery' = throttledQuery
              /\ pendingEffect' = [pending |-> TRUE, tq |-> throttledQuery,
                                   ck |-> catalogKey']
        /\ (pendingEffect.pending /\ pendingEffect.ck = catalogKey
              /\ pendingEffect.tq = throttledQuery
              /\ pendingEffect' # pendingEffect) =>
              /\ microtask'.queued
              /\ microtask'.results =
                    searchSegmentedIndex(indexByCatalog[catalogKey],
                                         throttledQuery, SEARCH_LIMIT)
              /\ microtask'.for = [ck |-> catalogKey, tq |-> throttledQuery]
        /\ microtask.queued =>
              /\ results' = microtask.results
              /\ activeIndex' = 0
              /\ resultsFor' = microtask.for ]_vars

C16_Witness ==
    /\ microtask.queued
    /\ microtask.for = [ck |-> "ssb", tq |-> "cus"]
    /\ catalogKey = "ssb"
    /\ throttledQuery = "cus"
    /\ resultsFor = [ck |-> "tpc-h", tq |-> "cus"]
    /\ Len(results) = 3
    /\ Len(microtask.results) = 2

(* C17: while the box is bound to a catalog key without an index, the     *)
(* searcher has not been called, every queued search output is empty,     *)
(* the result list is empty and the popup is closed.                      *)
C17_NoIndexNoResults ==
    catalogKey \notin DOMAIN indexByCatalog =>
        /\ ~lastSearch.called
        /\ microtask.queued => microtask.results = <<>>
        /\ results = <<>>
        /\ ~popupOpen

C17_Witness ==
    /\ catalogKey = UnindexedKey
    /\ lastEvent = "RunMicrotask"
    /\ resultsFor = [ck |-> UnindexedKey, tq |-> "cus"]
    /\ throttledQuery = "cus"
    /\ query = "cus"
    /\ results = <<>>
    /\ ~lastSearch.called

----------------------------------------------------------------------------
(* Properties of the index builder and of the loaded indexes *)

ItemsOf(fuse) == [i \in 1..Len(fuse.docs) |-> fuse.docs[i].item]

CountIn(items, P(_)) == Cardinality({i \in 1..Len(items) : P(items[i])})

TablesOf(catalog) ==
    Flatten([i \in 1..Len(catalog.databases) |-> catalog.databases[i].tables])

(* C18: the coarse index of a catalog holds one database item per          *)
(* database and one table item per table and nothing else (N + M items);   *)
(* the fine index holds, for every table, one column item per column and   *)
(* one partition item per partition of that table and nothing else.        *)
C18_IndexCounts ==
    \A k \in 1..Len(exportedData.catalogs) :
        LET catalog == exportedData.catalogs[k]
            coarse == ItemsOf(indexByCatalog[catalog.name].databasesAndTables)
            fine == ItemsOf(indexByCatalog[catalog.name].columnsAndPartitions)
        IN  catalog.name \in DOMAIN indexByCatalog =>
            /\ Len(coarse) = Len(catalog.databases) + Len(TablesOf(catalog))
            /\ \A i \in 1..Len(coarse) : coarse[i].kind \in {"database", "table"}
            /\ \A i \in 1..Len(fine) : fine[i].kind \in {"column", "partition"}
            /\ \A d \in 1..Len(catalog.databases) :
                 LET database == catalog.databases[d]
                 IN  /\ CountIn(coarse, LAMBDA it :
                            /\ it.kind = "database"
                            /\ it.databaseName = database.name) = 1
                     /\ \A t \in 1..Len(database.tables) :
                          LET table == database.tables[t]
                              Owned(it) == /\ it.databaseName = database.name
                                           /\ it.tableName = table.name
                          IN  /\ CountIn(coarse, LAMBDA it :
                                     it.kind = "table" /\ Owned(it)) = 1
                              /\ CountIn(fine, LAMBDA it :
                                     it.kind = "column" /\ Owned(it))
                                   = Len(ColumnsOf(table))
                              /\ CountIn(fine, LAMBDA it :
                                     it.kind = "partition" /\ Owned(it))
                                   = Len(table.partitions)

C18_Witness ==
    /\ lastEvent = "LoadIndexes"
    /\ Len(exportedData.catalogs[1].databases) = 2
    /\ Len(exportedData.catalogs[1].databases[1].tables) = 1
    /\ Len(ColumnsOf(exportedData.catalogs[1].databases[1].tables[1])) = 2
    /\ Len(exportedData.catalogs[1].databases[1].tables[1].partitions) = 1
    /\ Len(ItemsOf(indexByCatalog["tpc-h"].databasesAndTables)) = 3
    /\ Len(ItemsOf(indexByCatalog["tpc-h"].columnsAndPartitions)) = 3

AllItemsOf(index) ==
    ItemsOf(index.databasesAndTables) \o ItemsOf(index.columnsAndPartitions)

(* the route parameters of the entity an item belongs to *)
OwnerOf(catalog, item) ==
    IF item.kind = "database" THEN <<catalog.name, item.databaseName>>
    ELSE <<catalog.name, item.databaseName, item.tableName>>

(* C19: the locator of every item of a loaded index is answered by the    *)
(* router's loaders with the entity the item belongs to: its database for *)
(* a database item, its table for a table, column or partition item, and  *)
(* never with 404.                                                        *)
C19_LocatorsResolve ==
    \A k \in 1..Len(exportedData.catalogs) :
        LET catalog == exportedData.catalogs[k]
            items == AllItemsOf(indexByCatalog[catalog.name])
        IN  catalog.name \in DOMAIN indexByCatalog =>
            \A i \in 1..Len(items) :
                /\ RouteResponse(exportedData, items[i].resourceUrl).status = 200
                /\ RouteResponse(exportedData, items[i].resourceUrl).params
                      = OwnerOf(catalog, items[i])

(* C20: indexByCatalog holds one index for every catalog name of the      *)
(* metadata and nothing else, and every index is as it was built: no      *)
(* search and no event of the search box changes an entry or an item.     *)
C20_IndexesImmutable ==
    /\ DOMAIN indexByCatalog =
          {exportedData.catalogs[i].name : i \in 1..Len(exportedData.catalogs)}
    /\ indexByCatalog = builtIndex

C20_Witness ==
    /\ lastEvent = "RunMicrotask"
    /\ lastSearch.called
    /\ lastSearch.catalog = "ssb"
    /\ lastSearch.query = "customer"
    /\ activated
    /\ catalogKey = "ssb"

----------------------------------------------------------------------------
C21_WitnessEmptyQuery ==
    /\ lastSearch.called
    /\ lastSearch.query = ""
    /\ lastSearch.limit = MaxLimit
    /\ Len(builtIndex[lastSearch.catalog].columnsAndPartitions.docs) = 3
    /\ lastSearch.out = <<>>

(* C22: the builder yields an index for every catalog of the family: two  *)
(* empty indexes for a catalog without databases, only the database item  *)
(* for a database without tables, and for a table whose columns are null  *)
(* no column item and one partition item per partition.                   *)
C22_BuilderTotal ==
    lastEvent = "LoadIndexes" =>
    \A k \in 1..Len(exportedData.catalogs) :
        LET catalog == exportedData.catalogs[k]
            coarse == ItemsOf(indexByCatalog[catalog.name].databasesAndTables)
            fine == ItemsOf(indexByCatalog[catalog.name].columnsAndPartitions)
        IN  /\ catalog.name \in DOMAIN indexByCatalog
            /\ catalog.databases = <<>> => (coarse = <<>> /\ fine = <<>>)
            /\ \A d \in 1..Len(catalog.databases) :
                 LET database == catalog.databases[d]
                 IN  /\ database.tables = <<>> =>
                          /\ CountIn(coarse, LAMBDA it :
                                 it.databaseName = database.name) = 1
                          /\ CountIn(coarse, LAMBDA it :
                                 /\ it.kind = "database"
                                 /\ it.databaseName = database.name) = 1
                          /\ CountIn(fine, LAMBDA it :
                                 it.databaseName = database.name) = 0
                     /\ \A t \in 1..Len(database.tables) :
                          LET table == database.tables[t]
                              Owned(it) == /\ it.databaseName = database.name
                                           /\ it.tableName = table.name
                          IN  table.columns.isNull =>
                                /\ CountIn(fine, LAMBDA it :
                                       it.kind = "column" /\ Owned(it)) = 0
                                /\ CountIn(fine, LAMBDA it :
                                       it.kind = "partition" /\ Owned(it))
                                     = Len(table.partitions)

C22_Witness ==
    /\ lastEvent = "LoadIndexes"
    /\ Len(exportedData.catalogs[1].databases) = 2
    /\ Len(exportedData.catalogs[1].databases[1].tables) = 1
    /\ exportedData.catalogs[1].databases[1].tables[1].columns.isNull
    /\ Len(exportedData.catalogs[1].databases[1].tables[1].partitions) = 1
    /\ exportedData.catalogs[1].databases[2].tables = <<>>
    /\ Len(ItemsOf(indexByCatalog["tpc-h"].databasesAndTables)) = 3
    /\ Len(ItemsOf(indexByCatalog["tpc-h"].columnsAndPartitions)) = 1

C22_WitnessEmpty ==
    /\ lastEvent = "LoadIndexes"
    /\ exportedData.catalogs[1].databases = <<>>
    /\ ItemsOf(indexByCatalog["tpc-h"].databasesAndTables) = <<>>
    /\ ItemsOf(indexByCatalog["tpc-h"].columnsAndPartitions) = <<>>

(* C23: the locator of a database item is /{catalogKey}/{databaseKey};    *)
(* the locator of a table, column or partition item is the path the       *)
(* sidebar navigates to for the owning table,                             *)
(* /{catalogKey}/{databaseKey}/{tableKey} with the table key escaped.     *)
C23_LocatorForm ==
    \A k \in 1..Len(exportedData.catalogs) :
        LET catalog == exportedData.catalogs[k]
            items == AllItemsOf(indexByCatalog[catalog.name])
        IN  catalog.name \in DOMAIN indexByCatalog =>
            \A i \in 1..Len(items) :
                IF items[i].kind = "database"
                THEN items[i].resourceUrl =
                        <<"/">> \o Chars(catalog.name)
                        \o <<"/">> \o Chars(items[i].databaseName)
                ELSE /\ items[i].resourceUrl =
                           <<"/">> \o Chars(catalog.name)
                           \o <<"/">> \o Chars(items[i].databaseName)
                           \o <<"/">> \o Chars(encodeURIComponent(items[i].tableName))
                     /\ items[i].resourceUrl =
                           SidebarTableUrl(catalog,
                                           [name |-> items[i].databaseName],
                                           items[i].tableName)

----------------------------------------------------------------------------
(* One search over both segments: every match of either segment with the  *)
(* scores and the bias of searchSegmentedIndex, coarse matches first on   *)
(* equal score, capped once.                                              *)
CombinedSearch(index, q, limit) ==
    Slice(SortAsc(ApplyBias(SortAsc(FuseMatches(index.databasesAndTables.docs, q, 1)))
                  \o SortAsc(FuseMatches(index.columnsAndPartitions.docs, q, 1))),
          limit)

ResultItems(res) == {<<IsCoarse(res[i]), res[i].refIndex>> : i \in 1..Len(res)}

(* C24 as claimed: for a catalog with several items in each segment      *)
(* there are scores, a query and a limit for which the two capped         *)
(* searches, merged and truncated, return other items than the one        *)
(* combined search.                                                       *)
C24_CanDiffer ==
    LET catalog == exportedData.catalogs[1]
    IN  (/\ Len(databasesAndTablesIndex(catalog)) >= 2
         /\ Len(columnsAndPartitionsIndex(catalog)) >= 2) =>
        \E matcher \in [ItemSet(catalog) -> ScoreTables] :
          \E q \in Queries, limit \in 0..MaxLimit :
            ResultItems(searchSegmentedIndex(buildIndexForCatalog(catalog, matcher),
                                             q, limit))
              # ResultItems(CombinedSearch(buildIndexForCatalog(catalog, matcher),
                                           q, limit))

(* C24 as amended: every call of searchSegmentedIndex returns the list    *)
(* the one combined search returns, also when each segment has more       *)
(* matches than limit.                                                    *)
C24_SameAsCombined ==
    lastSearch.called =>
        lastSearch.out = CombinedSearch(builtIndex[lastSearch.catalog],
                                        lastSearch.query, lastSearch.limit)

C24_Witness ==
    /\ lastSearch.called
    /\ lastSearch.limit = 1
    /\ MatchCount(builtIndex[lastSearch.catalog].databasesAndTables,
                  lastSearch.query) = 2
    /\ MatchCount(builtIndex[lastSearch.catalog].columnsAndPartitions,
                  lastSearch.query) = 3
    /\ Len(lastSearch.out) = 1
    /\ ~IsCoarse(lastSearch.out[1])

----------------------------------------------------------------------------
(* C25: a change of the text sets query to the new text and leaves the    *)
(* displayed results, activeIndex, the committed query, the catalog and   *)
(* the location as they are; it schedules no search, and a search that    *)
(* runs in the same commit is the one scheduled before the change, for    *)
(* the query committed then.                                              *)
C25_TypeFrame ==
    [][ lastEvent' = "Type" =>
          /\ query' # query
          /\ timer'.armed /\ timer'.value = query'
          /\ UNCHANGED <<results, activeIndex, throttledQuery, catalogKey,
                         location, focused, resultsFor, indexByCatalog>>
          /\ pendingEffect' = NoEffect
          /\ lastSearch' # lastSearch =>
                /\ pendingEffect.pending
                /\ lastSearch'.query = pendingEffect.tq
                /\ lastSearch'.query = throttledQuery ]_vars

C25_Witness ==
    /\ lastEvent = "Type"
    /\ query = "customer"
    /\ throttledQuery = "cus"
    /\ resultsFor = [ck |-> "tpc-h", tq |-> "cus"]
    /\ Len(results) = 3
    /\ activeIndex = 1
    /\ timer.armed
    /\ ~pendingEffect.pending
    /\ ~microtask.queued

(* C26: when the output of a search is applied the text field has focus   *)
(* if the new result list is not empty and keeps its focus state if the   *)
(* list is empty; an activation by Enter or by a click leaves the field   *)
(* without focus.                                                         *)
C26_Focus ==
    [][ /\ microtask.queued =>
              /\ results' = microtask.results
              /\ Len(results') > 0 => focused'
              /\ Len(results') = 0 => focused' = focused
        /\ ((lastEvent' = "Enter" /\ HasActiveItem(results, activeIndex))
              \/ \E i \in 0..2 : lastEvent' = ClickEvent(i)) =>
              (activated' /\ ~focused') ]_vars

C26_Witness ==
    /\ lastEvent = "RunMicrotask"
    /\ Len(results) = 2
    /\ resultsFor = [ck |-> "ssb", tq |-> "cus"]
    /\ query = ""
    /\ activated
    /\ focused

C26_WitnessEmpty ==
    /\ lastEvent = "RunMicrotask"
    /\ results = <<>>
    /\ resultsFor.tq = ""
    /\ ~focused

(* C27: whenever the result list is not empty activeIndex is the index of *)
(* one of its entries.                                                    *)
C27_ActiveIndexInRange ==
    Len(results) > 0 => activeIndex \in 0..(Len(results) - 1)

C27_Witness ==
    /\ lastEvent = "ArrowUp"
    /\ resultsFor = [ck |-> "ssb", tq |-> "cus"]
    /\ catalogKey = "ssb"
    /\ Len(results) = 2
    /\ activeIndex = 1

(* Nothing is left to happen without new input: no timer is armed, no     *)
(* effect is scheduled, no callback is queued and the committed location  *)
(* is the one the box was rendered for.                                   *)
Quiescent ==
    /\ ~timer.armed
    /\ ~pendingEffect.pending
    /\ ~microtask.queued
    /\ RouteResponse(exportedData, location).status = 200
    /\ RouteResponse(exportedData, location).params[1] = catalogKey

(* C28: once nothing is left to happen without new input, the displayed   *)
(* results are searchSegmentedIndex(index of the catalog of the box, text *)
(* of the field, 10).                                                     *)
C28_QuiescentResultsMatch ==
    Quiescent =>
        results = searchSegmentedIndex(indexByCatalog[catalogKey], query,
                                       SEARCH_LIMIT)

OutputItems(res) == {res[k].item : k \in 1..Len(res)}

(* C29 as claimed: a result activated by Enter or by a click is in the    *)
(* output of the search for the text the field holds at that moment.      *)
C29_ActivatedForCurrentText ==
    [][ /\ (lastEvent' = "Enter" /\ HasActiveItem(results, activeIndex)) =>
              results[activeIndex + 1].item \in
                  OutputItems(searchSegmentedIndex(indexByCatalog[catalogKey],
                                                   query, SEARCH_LIMIT))
        /\ \A i \in 0..2 :
              lastEvent' = ClickEvent(i) =>
                  results[i + 1].item \in
                      OutputItems(searchSegmentedIndex(indexByCatalog[catalogKey],
                                                       query, SEARCH_LIMIT)) ]_vars

(* C29 as amended: a result activated by Enter or by a click is the       *)
(* highlighted or the clicked entry of the displayed list, which is the   *)
(* output of the search applied last, for the catalog and the committed   *)
(* query of that search; the navigation goes to its locator, whatever     *)
(* text the field holds.                                                  *)
C29_ActivatedFromDisplayed ==
    [][ /\ (lastEvent' = "Enter" /\ HasActiveItem(results, activeIndex)) =>
              /\ results = searchSegmentedIndex(indexByCatalog[resultsFor.ck],
                                                resultsFor.tq, SEARCH_LIMIT)
              /\ location' = results[activeIndex + 1].item.resourceUrl
        /\ \A i \in 0..2 :
              lastEvent' = ClickEvent(i) =>
                  /\ results = searchSegmentedIndex(indexByCatalog[resultsFor.ck],
                                                    resultsFor.tq, SEARCH_LIMIT)
                  /\ location' = results[i + 1].item.resourceUrl ]_vars

C29_Witness ==
    /\ lastEvent = "Enter"
    /\ activated
    /\ location = generatePath(<<"tpc-h", "sales", "orders">>)
    /\ resultsFor = [ck |-> "tpc-h", tq |-> "cus"]
    /\ throttledQuery = "cus"
    /\ burst.committed = "cus"
    /\ burst.changes = 2
    /\ timer.armed

----------------------------------------------------------------------------
(* Properties of TextWithHighlights *)

(* the ranges are in bounds, ascending and do not overlap *)
ValidRanges(text, ranges) ==
    /\ \A i \in 1..Len(ranges) :
          /\ 0 <= ranges[i][1]
          /\ ranges[i][1] <= ranges[i][2]
          /\ ranges[i][2] < Len(text)
    /\ \A i \in 1..(Len(ranges) - 1) : ranges[i][2] < ranges[i + 1][1]

NodeTexts(nodes) == Flatten([i \in 1..Len(nodes) |-> nodes[i].text])

(* 0-based indices of the characters of node i in the concatenation *)
NodePositions(nodes, i) ==
    LET before == Len(NodeTexts(SubSeq(nodes, 1, i - 1)))
    IN  before..(before + Len(nodes[i].text) - 1)

HighlightedPositions(nodes) ==
    UNION {NodePositions(nodes, i) : i \in {j \in 1..Len(nodes) : nodes[j].highlighted}}

CoveredPositions(ranges) == UNION {ranges[i][1]..ranges[i][2] : i \in 1..Len(ranges)}

(* C30: for ranges that are in bounds, ascending and not overlapping the  *)
(* emitted nodes, concatenated in order, are the text, and the characters *)
(* of the highlighted nodes are those at the indices the ranges cover,    *)
(* ends included.                                                         *)
C30_HighlightsPartitionText ==
    (textNodes.rendered /\ ValidRanges(textNodes.text, textNodes.ranges)) =>
        /\ NodeTexts(textNodes.nodes) = textNodes.text
        /\ HighlightedPositions(textNodes.nodes) = CoveredPositions(textNodes.ranges)

C30_Witness ==
    /\ textNodes.rendered
    /\ textNodes.text = <<"a", "b", "a">>
    /\ textNodes.ranges = <<<<0, 0>>, <<2, 2>>>>
    /\ Len(textNodes.nodes) = 3
    /\ textNodes.nodes[1].highlighted
    /\ ~textNodes.nodes[2].highlighted
    /\ textNodes.nodes[3].highlighted

====
